---- MODULE Spec2Model ----
(***************************************************************************)
(* Model of the research-podcast generator (src/app.py): the POST /generate *)
(* handler generate_podcast, the retrying script generator                  *)
(* generate_podcast_script, and the chunking of the script for the          *)
(* text-to-speech API.                                                      *)
(*                                                                          *)
(* Strings are sequences of one-character strings, byte strings are         *)
(* sequences of numbers.  Python's None and optional attributes are tagged  *)
(* records, so that every value can be compared with every other.           *)
(***************************************************************************)
EXTENDS Integers, Sequences, FiniteSets, TLC

\* ------------------------------------------------------------------ bounds
\* Longest short script tried by the chunking specification.
MaxScriptLen == 5
\* Largest small chunk size tried by the chunking specification.
MaxChunkLen == 3
\* Last value of the wall clock (seconds).
MaxClock == 1

\* ------------------------------------------------------- program constants
max_chunk_length == 3000
max_retries == 3

\* ------------------------------------------------------------ Python values
None == [tag |-> "None"]
Str(s) == [tag |-> "str", v |-> s]
\* Python truthiness of an optional string (`if not x`).
Truthy(x) == x.tag = "str" /\ x.v # <<>>

Min(a, b) == IF a < b THEN a ELSE b
SetMin(S) == CHOOSE x \in S : \A y \in S : x <= y
SetMax(S) == CHOOSE x \in S : \A y \in S : y <= x

\* range() that loses the start of a last, shorter run.
RangeFloor(start, stop, step) ==
    LET n == IF stop <= start THEN 0 ELSE (stop - start) \div step
    IN  [k \in 1..n |-> start + (k - 1) * step]

\* range(start, stop, step) for step > 0, as the list of its elements.
Range(start, stop, step) ==
    LET n == IF stop <= start THEN 0 ELSE ((stop - start - 1) \div step) + 1
    IN  [k \in 1..n |-> start + (k - 1) * step]

\* s[i:j] for 0 <= i <= j: the slice is clipped to the string.
Slice(s, i, j) == SubSeq(s, Min(i, Len(s)) + 1, Min(j, Len(s)))

\* [script[i:i+size] for i in range(0, len(script), size)]
ChunksBySize(script, size) ==
    LET starts == Range(0, Len(script), size)
    IN  [k \in 1..Len(starts) |-> Slice(script, starts[k], starts[k] + size)]

Chunks(script) == ChunksBySize(script, max_chunk_length)

\* str.join(sep, items)
RECURSIVE Join(_, _)
Join(sep, items) ==
    IF items = <<>> THEN <<>>
    ELSE IF Len(items) = 1 THEN items[1]
    ELSE items[1] \o sep \o Join(sep, Tail(items))

RECURSIVE Concat(_)
Concat(items) == IF items = <<>> THEN <<>> ELSE items[1] \o Concat(Tail(items))

Whitespace == {" ", "\n"}
\* str.strip()
Strip(s) ==
    LET keep == {i \in 1..Len(s) : s[i] \notin Whitespace}
    IN  IF keep = {} THEN <<>> ELSE SubSeq(s, SetMin(keep), SetMax(keep))

\* str.lower() on the characters file names are built from.
LowerChar(c) ==
    CASE c = "P" -> "p"
      [] c = "D" -> "d"
      [] c = "F" -> "f"
      [] c = "A" -> "a"
      [] OTHER -> c
Lower(s) == [i \in 1..Len(s) |-> LowerChar(s[i])]
\* str.endswith(suffix)
EndsWith(s, suffix) ==
    /\ Len(s) >= Len(suffix)
    /\ SubSeq(s, Len(s) - Len(suffix) + 1, Len(s)) = suffix

DotPdf == <<".", "p", "d", "f">>

\* ------------------------------------------------- the chunking, on its own
VARIABLES cs_script, cs_size, cs_chunks, cs_done
chunkVars == <<cs_script, cs_size, cs_chunks, cs_done>>

Alphabet == {"a", "b"}
RECURSIVE SeqsUpTo(_, _)
SeqsUpTo(S, n) ==
    IF n = 0 THEN {<<>>}
    ELSE LET shorter == SeqsUpTo(S, n - 1)
         IN  shorter \cup {Append(s, c) : s \in {t \in shorter : Len(t) = n - 1}, c \in S}

\* A script of n characters, no two neighbours equal.
LongScript(n) == [i \in 1..n |-> IF i % 2 = 1 THEN "a" ELSE "b"]
\* Script lengths around one and two chunks of the size the handler uses.
LongLens == {max_chunk_length - 1, max_chunk_length, max_chunk_length + 1,
             2 * max_chunk_length, 2 * max_chunk_length + 1}

ChunkInputs ==
    {[script |-> s, size |-> c] : s \in SeqsUpTo(Alphabet, MaxScriptLen), c \in 1..MaxChunkLen}
    \cup {[script |-> LongScript(n), size |-> max_chunk_length] : n \in LongLens}

InitChunk ==
    /\ \E in \in ChunkInputs : cs_script = in.script /\ cs_size = in.size
    /\ cs_chunks = <<>>
    /\ cs_done = FALSE




\* ------------------------------------------------------- the request state
Requests == {"r1", "r2"}

VARIABLES
    reqs,         \* the requests that are sent in this run
    murf_client,  \* module-level TTS client: TRUE when it was constructed
    clock,        \* datetime.now(), in whole seconds
    nextId,       \* the identifiers uuid4 / tempfile have handed out so far
    fs,           \* the filesystem: path -> [data, writer]
    rq            \* per request: the handler's locals and what it has done
handlerVars == <<reqs, murf_client, clock, nextId, fs, rq>>
vars == <<cs_script, cs_size, cs_chunks, cs_done, reqs, murf_client, clock, nextId, fs, rq>>

\* With more than one request in flight the environment's answers are drawn
\* from smaller sets: the interleavings are what that run explores.
Narrow == Cardinality(reqs) > 1

Absent == [tag |-> "absent"]
Raises == [tag |-> "raises"]
Val(x) == [tag |-> "val", v |-> x]
Raise == [tag |-> "raise"]

\* Paths.  uuid4 names carry a fresh identifier, the audio file the time.
UploadPath(id) == [dir |-> "uploads", name |-> id, stamp |-> FALSE, ext |-> "pdf"]
ScriptPath(id) == [dir |-> "uploads", name |-> id, stamp |-> FALSE, ext |-> "txt"]
TempPath(id) == [dir |-> "tmp", name |-> id, stamp |-> FALSE, ext |-> "pdf"]
\* datetime.now().strftime("%Y%m%d_%H%M%S"): the time to the second.
Timestamp(now) == now
AudioPath(timestamp) == [dir |-> "static/audio", name |-> timestamp, stamp |-> TRUE, ext |-> "mp3"]
Remote(u) == [tag |-> "remote", u |-> u]
LocalUrl(timestamp) == [tag |-> "local", dir |-> "/static/audio", name |-> timestamp]

WriteFile(files, path, data, r) == (path :> [data |-> data, writer |-> r]) @@ files
\* A removal that leaves the file where it is.
RemoveFileKept(files, path) == files
RemoveFile(files, path) == [p \in (DOMAIN files) \ {path} |-> files[p]]

\* Responses of the endpoint.
Error(code, msg) == [code |-> code, body |-> [error |-> msg]]
NoSelectedFile == Error(400, "No selected file")
InvalidFileType == Error(400, "Invalid file type. Please upload a PDF.")
NoUrlProvided == Error(400, "No URL provided")
CouldNotExtract == Error(400, "Could not extract text from the source.")
FailedToGenerate == Error(500, "Failed to generate podcast script")
InternalError == Error(500, "An internal server error occurred.")
TtsUnavailable(script) ==
    [code |-> 200,
     body |-> [status |-> "success", script |-> script, audio_url |-> None,
               warning |-> "Text-to-speech service not available"]]
AudioFailed(script) ==
    [code |-> 200,
     body |-> [status |-> "success", script |-> script, audio_url |-> None,
               warning |-> "Failed to generate audio. The text might be too long or contain unsupported characters."]]
Success(script, audio_url) ==
    [code |-> 200,
     body |-> [status |-> "success", script |-> script, audio_url |-> audio_url]]

InitialRequest ==
    [pc |-> "idle", direct |-> FALSE, kind |-> "", filename |-> None, source |-> None,
     filepath |-> None, paper_text |-> None,
     attempt |-> 0, podcast_script |-> None, script_path |-> None,
     audio_path |-> None, i |-> 0, all_audio_data |-> <<>>, audio_url |-> None,
     response |-> None,
     \* observations
     stages |-> <<>>, raised |-> {}, calls |-> 0, sleeps |-> <<>>,
     outcomes |-> <<>>, last_response |-> None, gen_result |-> Absent,
     tts_calls |-> 0, log |-> <<>>, added |-> <<>>, overwrote |-> FALSE]

InitHandler(active) ==
    /\ reqs = active
    /\ murf_client \in BOOLEAN
    /\ clock = 0
    /\ nextId = 0
    /\ fs = <<>>
    /\ rq = [r \in Requests |-> InitialRequest]

\* The request r moves on with the fields of `new` assigned.
Set(r, new) == rq' = [rq EXCEPT ![r] = new @@ @]
Done(resp) == [pc |-> "done", response |-> resp]
\* A top level that lets the exception go: no response is made.
TopLevelReraise(cur, site) ==
    [pc |-> "done", response |-> None, raised |-> cur.raised \cup {site}]

\* except Exception at the top level of generate_podcast
TopLevelExcept(cur, site) == Done(InternalError) @@ [raised |-> cur.raised \cup {site}]


\* ------------------------------------------------ what the outside may send
Pdf(name) == name \o DotPdf
Filenames ==
    IF Narrow THEN {Pdf(<<"a">>)}
    ELSE {<<>>, Pdf(<<"a">>), <<"A", ".", "P", "d", "F">>,
          <<"a", ".", "t", "x", "t">>, <<"p", "d", "f">>,
          Pdf(<<"a">>) \o <<".", "t", "x", "t">>}
Url == <<"h", ":", "/", "/", "x">>
Sources == IF Narrow THEN {Str(Url)} ELSE {None, Str(<<>>), Str(Url)}
Inputs ==
    {[kind |-> "file", filename |-> Str(f), source |-> None] : f \in Filenames}
    \cup {[kind |-> "json", filename |-> None, source |-> u] : u \in Sources}
    \cup (IF Narrow THEN {} ELSE {[kind |-> "other", filename |-> None, source |-> None]})

\* A PDF is the list of its pages' texts, or a file fitz cannot open.
Unreadable == [tag |-> "unreadable"]
Docs ==
    IF Narrow THEN {Val(<< <<"a">> >>)}
    ELSE {Unreadable, Val(<<>>), Val(<< <<>> >>), Val(<< <<" ">>, <<"\n">> >>),
          Val(<< <<"a">>, <<"b", " ">> >>)}
PageTexts == IF Narrow THEN {<<"a">>} ELSE {<<>>, <<" ">>, <<"a", " ", "b">>}

\* ------------------------------------------------------------ the extractor
\* extract_text_from_pdf: None when the file is missing, is not named .pdf or
\* cannot be read, and the pages' texts in page order otherwise.
ExtractTextFromPdf(files, path) ==
    IF path \notin DOMAIN files THEN None
    ELSE IF path.ext # "pdf" THEN None
    ELSE IF files[path].data.tag # "val" THEN None
    ELSE Str(Concat(files[path].data.v))

\* The handler going on with whatever the generator returned.
AfterScriptNoCheck(result) ==
    [pc |-> "debug", podcast_script |-> IF Truthy(result) THEN result ELSE Str(<<>>),
     gen_result |-> result]

\* Lines 282-283: the handler's check of the script.
AfterScript(result) ==
    IF ~Truthy(result) THEN Done(FailedToGenerate) @@ [gen_result |-> result]
    ELSE [pc |-> "debug", podcast_script |-> result, gen_result |-> result]

\* generate_podcast_script returns `result`: to the handler, or to whoever
\* called the function directly.
ReturnScript(direct, result) ==
    IF direct THEN [pc |-> "returned", gen_result |-> result]
    ELSE AfterScript(result)

\* The check without the strip().
IsBlankNoStrip(text) == ~Truthy(text)

\* if not text or not text.strip()
IsBlank(text) == ~Truthy(text) \/ Strip(text.v) = <<>>

\* Lines 141-167: generate_podcast_script refuses a blank text and otherwise
\* enters the retry loop.
EnterScript(direct, text) ==
    IF IsBlank(text) THEN ReturnScript(direct, None)
    ELSE [pc |-> "gen", attempt |-> 0]

\* Lines 276-281: the check of the extracted text, then the call of
\* generate_podcast_script.
AfterExtract(stages, text) ==
    IF ~Truthy(text)
    THEN Done(CouldNotExtract) @@ [paper_text |-> text, stages |-> stages]
    ELSE EnterScript(FALSE, text)
         @@ [paper_text |-> text, stages |-> Append(stages, "script")]

\* A validation that takes any named file.
ValidateAnyName(in) ==
    IF in.kind = "file"
    THEN IF in.filename.v = <<>> THEN Done(NoSelectedFile) ELSE [pc |-> "save"]
    ELSE IF in.kind = "json"
    THEN IF ~Truthy(in.source) THEN Done(NoUrlProvided) ELSE [pc |-> "fetch"]
    ELSE AfterExtract(<<>>, None)

\* Lines 244-278 before any file or network access: the branch on the payload
\* and the validation of the file name or the source.
Validate(in) ==
    IF in.kind = "file"
    THEN IF in.filename.v = <<>> THEN Done(NoSelectedFile)
         ELSE IF EndsWith(Lower(in.filename.v), DotPdf) THEN [pc |-> "save"]
         ELSE Done(InvalidFileType)
    ELSE IF in.kind = "json"
    THEN IF ~Truthy(in.source) THEN Done(NoUrlProvided) ELSE [pc |-> "fetch"]
    ELSE AfterExtract(<<>>, None)

Receive(r) ==
    /\ r \in reqs
    /\ rq[r].pc = "idle"
    /\ \E in \in Inputs : Set(r, Validate(in) @@ in)
    /\ UNCHANGED <<reqs, murf_client, clock, nextId, fs, cs_script, cs_size, cs_chunks, cs_done>>

\* filename = str(uuid.uuid4()) + ".pdf"; file.save(filepath)
SaveUpload(r) ==
    /\ rq[r].pc = "save"
    /\ nextId' = nextId + 1
    /\ \E doc \in Docs \cup {Raise} :
        IF doc = Raise
        THEN /\ Set(r, TopLevelExcept(rq[r], "save") @@ [filepath |-> UploadPath(nextId)])
             /\ fs' = fs
        ELSE /\ Set(r, [pc |-> "extract_pdf", filepath |-> UploadPath(nextId)])
             /\ fs' = WriteFile(fs, UploadPath(nextId), doc, r)
    /\ UNCHANGED <<reqs, murf_client, clock, cs_script, cs_size, cs_chunks, cs_done>>

\* paper_text = extract_text_from_pdf(filepath)
ExtractPdf(r) ==
    /\ rq[r].pc = "extract_pdf"
    /\ LET text == ExtractTextFromPdf(fs, rq[r].filepath)
       IN  Set(r, [pc |-> "remove", paper_text |-> text,
                   stages |-> Append(rq[r].stages, "extract"),
                   raised |-> IF fs[rq[r].filepath].data = Unreadable
                              THEN rq[r].raised \cup {"extract"} ELSE rq[r].raised])
    /\ UNCHANGED <<reqs, murf_client, clock, nextId, fs, cs_script, cs_size, cs_chunks, cs_done>>

\* os.remove(filepath), then the rest of the handler up to the model call.
RemoveUpload(r) ==
    /\ rq[r].pc = "remove"
    /\ \E ok \in (IF Narrow THEN {TRUE} ELSE BOOLEAN) :
        IF ok
        THEN /\ fs' = RemoveFile(fs, rq[r].filepath)
             /\ Set(r, AfterExtract(rq[r].stages, rq[r].paper_text))
        ELSE /\ fs' = fs
             /\ Set(r, TopLevelExcept(rq[r], "remove"))
    /\ UNCHANGED <<reqs, murf_client, clock, nextId, cs_script, cs_size, cs_chunks, cs_done>>

\* extract_text_from_url: the fetch fails, or answers a page, or a PDF that is
\* written to a temporary file (never removed) and read back while that file
\* is still open for writing, so that the read may see it incomplete.
FetchOutcomes ==
    (IF Narrow THEN {} ELSE {Raise})
    \cup {[tag |-> "html", text |-> t] : t \in PageTexts}
    \cup {[tag |-> "pdf", doc |-> d, flushed |-> f] : d \in Docs,
                                   f \in (IF Narrow THEN {TRUE} ELSE BOOLEAN)}
FetchUrl(r) ==
    /\ rq[r].pc = "fetch"
    /\ \E o \in FetchOutcomes :
        LET stages == Append(rq[r].stages, "extract")
            failed == [raised |-> rq[r].raised \cup {"extract"}]
        IN
        IF o = Raise
        THEN /\ Set(r, AfterExtract(stages, None) @@ failed)
             /\ UNCHANGED <<fs, nextId>>
        ELSE IF o.tag = "html"
        THEN /\ Set(r, AfterExtract(stages, Str(o.text)))
             /\ UNCHANGED <<fs, nextId>>
        ELSE LET data == IF o.flushed THEN o.doc ELSE Unreadable
                 files == WriteFile(fs, TempPath(nextId), data, r)
             IN  /\ fs' = files
                 /\ nextId' = nextId + 1
                 /\ Set(r, AfterExtract(stages, ExtractTextFromPdf(files, TempPath(nextId)))
                           @@ (IF data = Unreadable THEN failed ELSE <<>>))
    /\ UNCHANGED <<reqs, murf_client, clock, cs_script, cs_size, cs_chunks, cs_done>>


\* ----------------------------------------------------- the script generator
\* What model.generate_content answers: an object that may have the attributes
\* text (a property that may raise), parts (a list of parts, each with or
\* without a text) and candidates (a list of candidates, each with or without
\* content.parts).
TextShapes ==
    IF Narrow THEN {Val(<<"a">>)}
    ELSE {Absent, Raises, Val(<<>>), Val(<<"a">>)}
PartsShapes ==
    IF Narrow THEN {Absent}
    ELSE {Absent, Val(<<Absent>>), Val(<<Val(<<>>)>>),
          Val(<<Val(<<"b">>), Absent, Val(<<"c">>)>>)}
CandidatesShapes ==
    IF Narrow THEN {Absent}
    ELSE {Absent, Val(<<>>),
          Val(<<Absent, Val(<<>>), Val(<<Val(<<"d">>), Val(<<"e">>)>>), Val(<<Val(<<"f">>)>>)>>)}
\* An answer whose text takes more than one chunk to speak.
LongResponse ==
    [tag |-> "response", text |-> Val(LongScript(max_chunk_length + 1)),
     parts |-> Absent, candidates |-> Absent]
ModelResponses ==
    {[tag |-> "response", text |-> t, parts |-> p, candidates |-> c] :
        t \in TextShapes, p \in PartsShapes, c \in CandidatesShapes}
    \cup (IF Narrow THEN {} ELSE {LongResponse})
ModelOutcomes == ModelResponses \cup (IF Narrow THEN {} ELSE {Raise})

\* [part.text for part in parts if hasattr(part, 'text')]
PartTexts(parts) ==
    LET withText == SelectSeq(parts, LAMBDA part : part.tag = "val")
    IN  [k \in 1..Len(withText) |-> withText[k].v]

Space == <<" ">>

\* The loop over response.candidates: the first candidate whose content has
\* parts with text decides.
RECURSIVE FromCandidates(_)
FromCandidates(candidates) ==
    IF candidates = <<>> THEN Absent
    ELSE LET candidate == Head(candidates)
             parts == IF candidate.tag = "val" THEN PartTexts(candidate.v) ELSE <<>>
         IN  IF parts # <<>> THEN Val(Join(Space, parts))
             ELSE FromCandidates(Tail(candidates))

FromParts(response) ==
    IF response.parts.tag = "val" /\ PartTexts(response.parts.v) # <<>>
    THEN Val(Join(Space, PartTexts(response.parts.v)))
    ELSE Absent

\* A normalization that looks at the parts before the text field.
NormalizePartsFirst(response) ==
    IF FromParts(response) # Absent
    THEN [kind |-> "return", v |-> FromParts(response).v]
    ELSE IF response.text.tag = "raises" THEN [kind |-> "raise"]
    ELSE IF response.text.tag = "val" THEN [kind |-> "return", v |-> response.text.v]
    ELSE IF response.candidates.tag = "val" /\ FromCandidates(response.candidates.v) # Absent
    THEN [kind |-> "return", v |-> FromCandidates(response.candidates.v).v]
    ELSE [kind |-> "unexpected"]

\* Lines 176-198: what one answer of the model makes of the attempt: the text
\* to return, "unexpected" when no shape yields text, "raise" when reading
\* the answer raises.
Normalize(response) ==
    IF response.text.tag = "raises" THEN [kind |-> "raise"]
    ELSE IF response.text.tag = "val" THEN [kind |-> "return", v |-> response.text.v]
    ELSE IF FromParts(response) # Absent
    THEN [kind |-> "return", v |-> FromParts(response).v]
    ELSE IF response.candidates.tag = "val" /\ FromCandidates(response.candidates.v) # Absent
    THEN [kind |-> "return", v |-> FromCandidates(response.candidates.v).v]
    ELSE [kind |-> "unexpected"]

AttemptResult(outcome) == IF outcome = Raise THEN [kind |-> "raise"] ELSE Normalize(outcome)

RECURSIVE Pow2(_)
Pow2(n) == IF n = 0 THEN 1 ELSE 2 * Pow2(n - 1)
\* A backoff that starts at two seconds.
WaitTimeLate(attempt) == Pow2(attempt + 1)

\* wait_time = 2 ** attempt
WaitTime(attempt) == Pow2(attempt)

\* Lines 200-204: an answer of no known shape.  Sleep unless this was the last
\* attempt, then the loop goes on to the next attempt, if there is one.
AfterUnexpected(cur) ==
    LET sleeps == IF cur.attempt < max_retries - 1
                  THEN Append(cur.sleeps, WaitTime(cur.attempt)) ELSE cur.sleeps
    IN  IF cur.attempt + 1 < max_retries
        THEN [pc |-> "gen", attempt |-> cur.attempt + 1, sleeps |-> sleeps]
        ELSE ReturnScript(cur.direct, None) @@ [sleeps |-> sleeps]

\* Lines 206-221: an attempt that raised.  The last attempt breaks out of the
\* loop, any other sleeps and goes on.
AfterRaise(cur) ==
    IF cur.attempt = max_retries - 1
    THEN ReturnScript(cur.direct, None)
    ELSE [pc |-> "gen", attempt |-> cur.attempt + 1,
          sleeps |-> Append(cur.sleeps, WaitTime(cur.attempt))]

\* A direct call generate_podcast_script(text), as a unit test makes it.
DirectTexts == {None, Str(<<>>), Str(<<" ">>), Str(<<"\n", " ">>), Str(<<" ", "a", " ">>)}
CallScript(r) ==
    /\ r \in reqs
    /\ rq[r].pc = "idle"
    /\ \E text \in DirectTexts :
        Set(r, EnterScript(TRUE, text) @@ [direct |-> TRUE, paper_text |-> text])
    /\ UNCHANGED <<reqs, murf_client, clock, nextId, fs, cs_script, cs_size, cs_chunks, cs_done>>

\* One pass of the retry loop of generate_podcast_script; when the function
\* returns to the handler, the handler's check of the script is part of the
\* step.
GenAttempt(r) ==
    /\ rq[r].pc = "gen"
    /\ \E outcome \in ModelOutcomes :
        LET cur == rq[r]
            res == AttemptResult(outcome)
            seen(kind) == [calls |-> cur.calls + 1, outcomes |-> Append(cur.outcomes, kind)]
        IN  IF res.kind = "return"
            THEN Set(r, ReturnScript(cur.direct, Str(res.v))
                        @@ seen(IF res.v = <<>> THEN "empty" ELSE "ok")
                        @@ [last_response |-> outcome])
            ELSE IF res.kind = "unexpected"
            THEN Set(r, AfterUnexpected(cur) @@ seen("malformed"))
            ELSE Set(r, AfterRaise(cur) @@ seen("raised")
                        @@ [raised |-> cur.raised \cup {"model"}])
    /\ UNCHANGED <<reqs, murf_client, clock, nextId, fs, cs_script, cs_size, cs_chunks, cs_done>>


\* ---------------------------------------------------------- speech synthesis
RemoteUrls == {"https://murf/1"}
TtsOutcomes ==
    IF Narrow THEN {Val(u) : u \in RemoteUrls}
    ELSE {Raise, Absent} \cup {Val(u) : u \in RemoteUrls}
DownloadOutcomes ==
    IF Narrow THEN {[status |-> 200, content |-> <<1>>]}
    ELSE {Raise, [status |-> 404, content |-> <<9>>], [status |-> 200, content |-> <<>>],
          [status |-> 200, content |-> <<1>>], [status |-> 200, content |-> <<2>>]}

\* An extend that puts the new bytes in front.
ExtendFront(buffer, content) == content \o buffer

\* all_audio_data.extend(audio_response.content)
Extend(buffer, content) == buffer \o content

\* The end of one pass of the loop over the chunks (line 318), and what
\* follows the loop: the check of the buffer (line 343).
NextChunk(cur, data) ==
    IF cur.i < Len(Chunks(cur.podcast_script.v))
    THEN [pc |-> "tts", i |-> cur.i + 1, all_audio_data |-> data]
    ELSE IF data = <<>>
    THEN Done(AudioFailed(cur.podcast_script)) @@ [all_audio_data |-> data]
    ELSE [pc |-> "write_audio", all_audio_data |-> data]

\* A synthesis block whose errors end the request like any other error.
SynthesisExceptFatal(cur, site) == TopLevelExcept(cur, site)

\* except Exception of the synthesis block (lines 358-368): the response is
\* built from whatever audio_url holds.
SynthesisExcept(cur, site) ==
    Done(Success(cur.podcast_script, cur.audio_url))
    @@ [raised |-> cur.raised \cup {site}]

\* Lines 293-315: after the debug file, the handler answers at once when
\* there is no TTS client, and otherwise names the audio file after the
\* current second and starts on the first chunk.
StartSynthesis(cur, client, now) ==
    IF ~client THEN Done(TtsUnavailable(cur.podcast_script))
    ELSE [audio_path |-> AudioPath(Timestamp(now)), all_audio_data |-> <<>>]
         @@ (IF Chunks(cur.podcast_script.v) = <<>>
             THEN Done(AudioFailed(cur.podcast_script))
             ELSE [pc |-> "tts", i |-> 1])

\* Lines 288-291: the script goes to uploads/<uuid4>.txt.
WriteDebug(r) ==
    /\ rq[r].pc = "debug"
    /\ nextId' = nextId + 1
    /\ \E ok \in (IF Narrow THEN {TRUE} ELSE BOOLEAN) :
        LET seen == [script_path |-> ScriptPath(nextId),
                     stages |-> Append(rq[r].stages, "debug")]
        IN  IF ok
            THEN /\ fs' = WriteFile(fs, ScriptPath(nextId), rq[r].podcast_script, r)
                 /\ Set(r, StartSynthesis(rq[r], murf_client, clock) @@ seen)
            ELSE /\ fs' = fs
                 /\ Set(r, TopLevelExcept(rq[r], "debug") @@ seen)
    /\ UNCHANGED <<reqs, murf_client, clock, cs_script, cs_size, cs_chunks, cs_done>>

\* client.text_to_speech.generate for chunk i (lines 321-341).
TtsGenerate(r) ==
    /\ rq[r].pc = "tts"
    /\ \E o \in TtsOutcomes :
        LET cur == rq[r]
            seen == [tts_calls |-> cur.tts_calls + 1,
                     stages |-> IF cur.i = 1 THEN Append(cur.stages, "tts") ELSE cur.stages]
            note(what) == seen @@ [log |-> Append(cur.log, [chunk |-> cur.i, what |-> what])]
        IN  IF o = Raise THEN Set(r, SynthesisExcept(cur, "tts") @@ note("tts raised"))
            ELSE IF o = Absent
            THEN Set(r, NextChunk(cur, cur.all_audio_data) @@ note("no audio_file"))
            ELSE Set(r, [pc |-> "download", audio_url |-> Remote(o.v)] @@ seen)
    /\ UNCHANGED <<reqs, murf_client, clock, nextId, fs, cs_script, cs_size, cs_chunks, cs_done>>

\* requests.get(audio_url) for chunk i (lines 335-339).
Download(r) ==
    /\ rq[r].pc = "download"
    /\ \E o \in DownloadOutcomes :
        LET cur == rq[r]
            note(what) == [log |-> Append(cur.log, [chunk |-> cur.i, what |-> what])]
        IN
        IF o = Raise THEN Set(r, SynthesisExcept(cur, "download") @@ note("download raised"))
        ELSE IF o.status = 200
        THEN Set(r, NextChunk(cur, Extend(cur.all_audio_data, o.content))
                    @@ note("downloaded")
                    @@ [added |-> Append(cur.added, [chunk |-> cur.i, content |-> o.content])])
        ELSE Set(r, NextChunk(cur, cur.all_audio_data) @@ note("download refused"))
    /\ UNCHANGED <<reqs, murf_client, clock, nextId, fs, cs_script, cs_size, cs_chunks, cs_done>>

\* Lines 351-356: the buffer goes to the audio file, whoever wrote that path
\* before.
WriteAudio(r) ==
    /\ rq[r].pc = "write_audio"
    /\ \E ok \in (IF Narrow THEN {TRUE} ELSE BOOLEAN) :
        LET cur == rq[r] IN
        IF ok
        THEN /\ fs' = WriteFile(fs, cur.audio_path, cur.all_audio_data, r)
             /\ Set(r, Done(Success(cur.podcast_script, LocalUrl(cur.audio_path.name)))
                       @@ [audio_url |-> LocalUrl(cur.audio_path.name),
                           overwrote |-> cur.audio_path \in DOMAIN fs])
        ELSE /\ fs' = fs
             /\ Set(r, SynthesisExcept(cur, "audio_write"))
    /\ UNCHANGED <<reqs, murf_client, clock, nextId, cs_script, cs_size, cs_chunks, cs_done>>

\* A second passes.
Tick ==
    /\ clock < MaxClock
    /\ clock' = clock + 1
    /\ UNCHANGED <<reqs, murf_client, nextId, fs, rq, cs_script, cs_size, cs_chunks, cs_done>>

\* ---------------------------------------------------------- specifications
\* The chunking of one script, as line 312 does it.
DoChunk ==
    /\ ~cs_done
    /\ cs_chunks' = ChunksBySize(cs_script, cs_size)
    /\ cs_done' = TRUE
    /\ UNCHANGED <<cs_script, cs_size, reqs, murf_client, clock, nextId, fs, rq>>

Step(r) ==
    \/ Receive(r)
    \/ SaveUpload(r)
    \/ ExtractPdf(r)
    \/ RemoveUpload(r)
    \/ FetchUrl(r)
    \/ GenAttempt(r)
    \/ WriteDebug(r)
    \/ TtsGenerate(r)
    \/ Download(r)
    \/ WriteAudio(r)

NextHandler == Tick \/ \E r \in Requests : Step(r)

\* Nothing to chunk on its own while requests are handled.
ChunkIdle ==
    /\ cs_script = <<>>
    /\ cs_size = max_chunk_length
    /\ cs_chunks = <<>>
    /\ cs_done = TRUE

\* One request at a time, every answer of the environment.
Init == InitHandler({"r1"}) /\ ChunkIdle
Next == NextHandler
Spec == Init /\ [][Next]_vars

\* Two requests in flight together.
InitConc == InitHandler(Requests) /\ ChunkIdle
SpecConc == InitConc /\ [][Next]_vars

\* generate_podcast_script called on its own.
NextGen == \E r \in Requests : CallScript(r) \/ GenAttempt(r)
SpecGen == Init /\ [][NextGen]_vars

\* The chunking alone, over every small script and chunk size.
NextChunking == DoChunk
InitChunking == InitChunk /\ InitHandler({})
SpecChunk == InitChunking /\ [][NextChunking]_vars


\* =================================================================== claims
\* The attempts that failed without an answer.
Failed == {"malformed", "raised"}
CeilDiv(a, b) == (a \div b) + (IF a % b = 0 THEN 0 ELSE 1)
\* Every download that was tried failed, and no chunk went without one.
DownloadFailures == {"download refused", "download raised"}
AllDownloadsFailed(q) ==
    /\ q.pc = "done"
    /\ q.log # <<>>
    /\ \A k \in 1..Len(q.log) : q.log[k].what \in DownloadFailures
ScriptOnlyWithWarning(q) ==
    /\ q.response.code = 200
    /\ q.response.body.status = "success"
    /\ q.response.body.script = q.podcast_script
    /\ q.response.body.audio_url = None
    /\ "warning" \in DOMAIN q.response.body
\* The upload's name does not end in .pdf, whatever the case.
NotPdfUpload(q) ==
    /\ q.kind = "file"
    /\ ~EndsWith(Lower(q.filename.v), DotPdf)
NothingSavedNorExtracted(r) ==
    /\ rq[r].filepath = None
    /\ "extract" \notin {rq[r].stages[k] : k \in 1..Len(rq[r].stages)}
    /\ \A path \in DOMAIN fs : fs[path].writer # r
\* Where an exception was raised: inside the synthesis block, or in the
\* handler's own statements outside it.
SynthesisSites == {"tts", "download", "audio_write"}
TopLevelSites == {"save", "remove", "debug"}
\* The paths a request has named.
PathsOf(q) == {q.filepath, q.script_path, q.audio_path} \ {None}
StageOrder == <<"extract", "script", "debug", "tts">>
StagesOf(q) == {q.stages[k] : k \in 1..Len(q.stages)}

\* C1: a script of length L >= 1 cut with chunk size C gives ceil(L/C) chunks,
\* all but the last of length exactly C, each the stretch of the script that
\* follows the chunks before it (in order, no overlap, no gap), and the
\* chunks put together are the script.
C1_Chunking ==
    (cs_done /\ Len(cs_script) >= 1) =>
        LET n == Len(cs_chunks) IN
        /\ n = CeilDiv(Len(cs_script), cs_size)
        /\ \A k \in 1..(n - 1) : Len(cs_chunks[k]) = cs_size
        /\ Len(cs_chunks[n]) \in 1..cs_size
        /\ \A k \in 1..n :
             cs_chunks[k] = SubSeq(cs_script, (k - 1) * cs_size + 1,
                                   (k - 1) * cs_size + Len(cs_chunks[k]))
        /\ Concat(cs_chunks) = cs_script
\* A script one character longer than two chunks of the handler's size.
C1_Witness ==
    /\ cs_done
    /\ cs_size = max_chunk_length
    /\ Len(cs_chunks) = 3
    /\ Len(cs_chunks[3]) = 1

\* C2: a call whose first two attempts fail and whose third succeeds returns
\* what the third answer holds, and has slept 1 second, then 2 seconds, and
\* no more.
C2_ThirdAttemptSucceeds ==
    \A r \in Requests :
        LET q == rq[r] IN
        (/\ Len(q.outcomes) = 3
         /\ q.outcomes[1] \in Failed /\ q.outcomes[2] \in Failed
         /\ q.outcomes[3] = "ok") =>
            /\ q.pc # "gen"
            /\ q.gen_result = Str(Normalize(q.last_response).v)
            /\ q.sleeps = <<1, 2>>
            /\ q.calls = 3
C2_Witness ==
    \E r \in Requests :
        /\ rq[r].outcomes = <<"raised", "malformed", "ok">>
        /\ rq[r].gen_result = Str(<<"d", " ", "e">>)

\* C5: the model is called at most 3 times in one call, and every attempt
\* that ends in a malformed answer, an empty answer or an error is followed,
\* while fewer than 3 attempts were made, by a sleep of 2^attempt seconds
\* (1, then 2) and another attempt.
C5_EveryFailureRetried ==
    \A r \in Requests :
        LET q == rq[r] IN
        /\ q.calls <= max_retries
        /\ \A k \in 1..Len(q.outcomes) :
            (q.outcomes[k] \in Failed \cup {"empty"} /\ k < max_retries) =>
                /\ Len(q.sleeps) >= k /\ q.sleeps[k] = Pow2(k - 1)
                /\ (q.pc # "gen" => Len(q.outcomes) > k)

\* C6: when all 3 attempts fail, by a malformed answer or an error in any
\* mix, the call returns None and raises nothing; for an empty or
\* whitespace-only text it returns None and the model is never called.
C6_FailureIsNone ==
    \A r \in Requests :
        LET q == rq[r] IN
        /\ (q.direct /\ q.pc # "idle") => q.pc \in {"gen", "returned"}
        /\ (q.pc = "returned" /\ Len(q.outcomes) = max_retries
              /\ \A k \in 1..max_retries : q.outcomes[k] \in Failed)
             => q.gen_result = None
        /\ (q.direct /\ q.pc # "idle"
              /\ (q.paper_text = None \/ \A k \in 1..Len(q.paper_text.v) :
                                            q.paper_text.v[k] \in Whitespace))
             => (q.pc = "returned" /\ q.gen_result = None /\ q.calls = 0)
C6_Witness ==
    \E r \in Requests :
        /\ rq[r].pc = "returned"
        /\ rq[r].outcomes = <<"malformed", "raised", "raised">>
        /\ rq[r].gen_result = None


\* C3: when every chunk's audio download fails, the endpoint still answers 200
\* with status success, the script, audio_url null and a warning.
C3_AllDownloadsFail ==
    \A r \in Requests : AllDownloadsFailed(rq[r]) => ScriptOnlyWithWarning(rq[r])

\* C4 as written: an upload whose file name does not end in .pdf, whatever the
\* case, is answered 400 'Invalid file type', with nothing saved and no
\* extraction.
C4_NonPdfRejected ==
    \A r \in Requests :
        NotPdfUpload(rq[r]) =>
            /\ rq[r].pc = "done"
            /\ rq[r].response = InvalidFileType
            /\ NothingSavedNorExtracted(r)
\* C4 amended: the 'Invalid file type' answer is for file names that are not
\* empty; an upload with an empty file name is answered 400 'No selected
\* file'.  In both cases nothing is saved and nothing is extracted.
C4_NonPdfRejectedByName ==
    \A r \in Requests :
        NotPdfUpload(rq[r]) =>
            /\ rq[r].pc = "done"
            /\ rq[r].response.code = 400
            /\ rq[r].response = (IF rq[r].filename.v = <<>> THEN NoSelectedFile
                                 ELSE InvalidFileType)
            /\ NothingSavedNorExtracted(r)
C4_Witness ==
    \E r \in Requests :
        /\ rq[r].filename = Str(Pdf(<<"a">>) \o <<".", "t", "x", "t">>)
        /\ rq[r].response = InvalidFileType

\* C7: once the script is generated and its debug file written, the answer is
\* 200 with status success and that script, whatever the synthesis does; with
\* no TTS client there is no TTS call, and the answer has audio_url null and a
\* warning.
C7_ScriptAlwaysReturned ==
    \A r \in Requests :
        LET q == rq[r] IN
        (q.script_path # None /\ q.script_path \in DOMAIN fs) =>
            /\ Truthy(q.gen_result)
            /\ fs[q.script_path].data = q.gen_result
            /\ q.pc \in {"tts", "download", "write_audio", "done"}
            /\ q.pc = "done" =>
                /\ q.response.code = 200
                /\ q.response.body.status = "success"
                /\ q.response.body.script = q.gen_result
            /\ ~murf_client =>
                /\ q.pc = "done"
                /\ q.tts_calls = 0
                /\ q.response.body.audio_url = None
                /\ "warning" \in DOMAIN q.response.body
C7_Witness ==
    \E r \in Requests :
        /\ rq[r].pc = "done"
        /\ "audio_write" \in rq[r].raised
        /\ rq[r].response.code = 200
        /\ rq[r].response.body.script = Str(LongScript(max_chunk_length + 1))

\* C8 as written: an exception raised anywhere while the request is handled
\* ends in the 500 answer with the generic message.
C8_AnyExceptionIs500 ==
    \A r \in Requests :
        (rq[r].pc = "done" /\ rq[r].raised # {}) => rq[r].response = InternalError
\* C8 amended: every request ends in a response (no exception leaves the
\* handler); an exception of a statement the handler runs outside the
\* synthesis block (saving the upload, removing it, writing the debug file)
\* ends in the generic 500; an exception inside the synthesis block ends in
\* 200 with the script, and one inside an extractor in the 400 answer for a
\* source without text.
C8_UncaughtIs500 ==
    \A r \in Requests :
        LET q == rq[r] IN
        q.pc = "done" =>
            /\ q.response # None
            /\ q.response.code \in {200, 400, 500}
            /\ (q.raised \cap TopLevelSites # {}) => q.response = InternalError
            /\ ("extract" \in q.raised /\ q.raised \cap TopLevelSites = {}) =>
                  q.response = CouldNotExtract
            /\ (q.raised \cap SynthesisSites # {}) =>
                  /\ q.response.code = 200
                  /\ q.response.body.script = q.podcast_script
C8_Witness ==
    \E r \in Requests :
        /\ rq[r].pc = "done"
        /\ rq[r].raised = {"model", "debug"}
        /\ rq[r].response = InternalError

\* C9: two requests in flight never use the same path: upload, debug file and
\* audio file of a request are named apart from every other request's, and no
\* request writes over another's audio file.
C9_PathsNeverShared ==
    \A r1, r2 \in Requests :
        r1 # r2 =>
            /\ PathsOf(rq[r1]) \cap PathsOf(rq[r2]) = {}
            /\ ~rq[r1].overwrote

\* C10: the stages run in the order extract, script, debug file, speech, and
\* a failed stage ends the request: no text (also for a request that is
\* neither upload nor JSON) is answered 400 with the model never called, an
\* empty script is answered 500 with no debug file and no TTS call.
C10_StagesInOrder ==
    \A r \in Requests :
        LET q == rq[r] IN
        /\ \E n \in 0..Len(StageOrder) : q.stages = SubSeq(StageOrder, 1, n)
        /\ q.calls > 0 => Truthy(q.paper_text)
        /\ q.tts_calls > 0 => (q.script_path \in DOMAIN fs /\ Truthy(q.gen_result))
        /\ (q.kind = "other" \/ (q.pc \in {"gen", "debug", "tts", "download", "write_audio"})
              \/ (q.pc = "done" /\ "extract" \in StagesOf(q) /\ q.raised \cap TopLevelSites = {}))
             => \/ Truthy(q.paper_text)
                \/ /\ q.pc = "done"
                   /\ q.response = CouldNotExtract
                   /\ q.calls = 0
                   /\ "script" \notin StagesOf(q)
        /\ ("script" \in StagesOf(q) /\ q.pc # "gen" /\ ~Truthy(q.gen_result)) =>
                /\ q.pc = "done"
                /\ q.response = FailedToGenerate
                /\ StagesOf(q) \cap {"debug", "tts"} = {}
                /\ q.script_path = None
                /\ q.tts_calls = 0
                /\ \A path \in DOMAIN fs : path.ext # "txt"
C10_Witness ==
    \E r \in Requests :
        /\ rq[r].pc = "done"
        /\ rq[r].outcomes = <<"malformed", "empty">>
        /\ rq[r].response = FailedToGenerate


\* C11 as written: on the file branch, the temporary PDF of every request
\* whose upload was saved is gone when the response is returned, whether the
\* extraction gave text, gave nothing or failed inside.
C11_TempFileGone ==
    \A r \in Requests :
        LET q == rq[r] IN
        (q.pc = "done" /\ q.filepath # None /\ "save" \notin q.raised) =>
            q.filepath \notin DOMAIN fs
\* C11 amended: the temporary PDF is gone from the moment os.remove has
\* returned, whatever the extraction did; it stays only when os.remove
\* itself raises, and that request is answered with the generic 500.
C11_TempFileGoneUnlessRemoveRaises ==
    \A r \in Requests :
        LET q == rq[r] IN
        (q.filepath # None /\ "save" \notin q.raised
           /\ q.pc \notin {"idle", "save", "extract_pdf", "remove"}) =>
            IF "remove" \in q.raised
            THEN q.pc = "done" /\ q.response = InternalError /\ q.filepath \in DOMAIN fs
            ELSE q.filepath \notin DOMAIN fs
\* An upload that fitz could not read, removed all the same.
C11_Witness ==
    \E r \in Requests :
        /\ rq[r].pc = "done"
        /\ rq[r].filepath # None
        /\ rq[r].raised = {"extract"}
        /\ rq[r].response = CouldNotExtract
        /\ rq[r].filepath \notin DOMAIN fs


\* What the chunks 1..n gave, in chunk order: the bytes of a chunk that was
\* downloaded, nothing for any other chunk.
RECURSIVE BytesOfChunks(_, _)
BytesOfChunks(q, n) ==
    IF n = 0 THEN <<>>
    ELSE LET got == {k \in 1..Len(q.added) : q.added[k].chunk = n}
         IN  BytesOfChunks(q, n - 1)
             \o (IF got = {} THEN <<>> ELSE q.added[CHOOSE k \in got : TRUE].content)
\* C12: the audio file holds, in chunk order, the bytes of exactly the chunks
\* whose TTS call gave a URL and whose download was answered 200; a chunk
\* without URL or with another status gives nothing, and every chunk after it
\* is still processed.
C12_AudioIsDownloadsInOrder ==
    \A r \in Requests :
        LET q == rq[r]
            n == Len(Chunks(q.podcast_script.v))
        IN
        (q.pc = "done" /\ q.audio_url.tag = "local") =>
            /\ \A c \in 1..n : Cardinality({k \in 1..Len(q.log) : q.log[k].chunk = c}) = 1
            /\ \A c \in 1..n :
                 Cardinality({k \in 1..Len(q.added) : q.added[k].chunk = c})
                   = (IF \E k \in 1..Len(q.log) :
                            q.log[k] = [chunk |-> c, what |-> "downloaded"]
                      THEN 1 ELSE 0)
            /\ fs[q.audio_path].data = BytesOfChunks(q, n)
            /\ q.all_audio_data = BytesOfChunks(q, n)
\* Two chunks, both downloaded, with different bytes.
C12_Witness ==
    \E r \in Requests :
        /\ rq[r].pc = "done"
        /\ rq[r].audio_url.tag = "local"
        /\ rq[r].added = <<[chunk |-> 1, content |-> <<2>>], [chunk |-> 2, content |-> <<1>>]>>
\* A first chunk that was refused, a second that was downloaded.
C12_WitnessSkipped ==
    \E r \in Requests :
        /\ rq[r].pc = "done"
        /\ rq[r].audio_url.tag = "local"
        /\ rq[r].log = <<[chunk |-> 1, what |-> "download refused"],
                         [chunk |-> 2, what |-> "downloaded"]>>


\* C13: a success response with an audio_url that is not null names the local
\* file /static/audio/podcast_<timestamp>.mp3, which this request wrote with
\* its non-empty buffer; on no path, also not when a TTS call, a download or
\* the write raises, is the audio_url a URL of the TTS provider or the name of
\* a file that was not written.
C13_AudioUrlIsWrittenLocalFile ==
    \A r \in Requests :
        LET q == rq[r] IN
        (q.pc = "done" /\ q.response.code = 200 /\ q.response.body.audio_url # None) =>
            /\ q.response.body.audio_url = LocalUrl(q.audio_path.name)
            /\ q.audio_path \in DOMAIN fs
            /\ fs[q.audio_path].writer = r
            /\ fs[q.audio_path].data = q.all_audio_data
            /\ q.all_audio_data # <<>>


\* The texts a list of parts carries, each followed by a space.
RECURSIVE SpacedTexts(_)
SpacedTexts(parts) ==
    IF parts = <<>> THEN <<>>
    ELSE (IF Head(parts).tag = "val" THEN Head(parts).v \o <<" ">> ELSE <<>>)
         \o SpacedTexts(Tail(parts))
\* A list of parts yields text when one of its parts has a text.
YieldsText(parts) == \E k \in 1..Len(parts) : parts[k].tag = "val"
\* The parts' texts with single spaces between them.
SpaceJoined(parts) == SubSeq(SpacedTexts(parts), 1, Len(SpacedTexts(parts)) - 1)
\* The candidates whose content has parts that yield text.
Yielding(candidates) ==
    {k \in 1..Len(candidates) : candidates[k].tag = "val" /\ YieldsText(candidates[k].v)}
====
